---------------------------- MODULE Spec2Model ----------------------------
(***************************************************************************)
(* A model of tstoolbox: the ISO time-series reader and printer of         *)
(* tsutils, the gap filling routine fill, the goodness-of-fit command gof, *)
(* printiso's choice between printing and returning, and the commands      *)
(* convert, add_trend and rolling_window.                                  *)
(*                                                                         *)
(* Text is a sequence of lines, a line a sequence of tokens (a comma, a    *)
(* blank, a line end, a name, a date literal, a number literal, junk), so  *)
(* that split(','), strip(), float() and dateutil's parse() are computed.  *)
(* A float is a record: a rational n/d (k = "num"), the 12-digit rounding  *)
(* of n/d that Python 2's str() prints (k = "r12"), an infinity            *)
(* (k = "inf", n the sign), NaN, the missing value (k = "nan"), or the     *)
(* finite value a quadratic or cubic spline yields, which is not computed  *)
(* (k = "spl").                                                            *)
(***************************************************************************)
EXTENDS Integers, Sequences, FiniteSets, TLC

VARIABLES
    pyver,      \* the interpreter's major version, 2 or 3
    tsd,        \* the table handed to _printiso (round trip)
    fp,         \* read_iso_ts: the lines of the input not read yet
    indat,      \* read_iso_ts: the whole input text
    header,     \* read_iso_ts: the header's fields
    words,      \* read_iso_ts: the fields of the line read last
    lineno,     \* read_iso_ts: the number of data lines read
    dates,      \* read_iso_ts: the timestamps collected
    values,     \* read_iso_ts: column name -> the values collected
    rpc,        \* read_iso_ts: "idle", "header", "lines", "done"
    rout,       \* read_iso_ts: what the call ended in
    ftsd,       \* fill: the table after ingestion (tsd)
    method,     \* fill: the method string
    offset,     \* fill: ntsd.index[1] - ntsd.index[0]
    ntsd,       \* fill: the table being filled
    fpass,      \* fill: 1 in the first call, 2 when fill is applied to its output
    first,      \* fill: the table the first call returned
    fpc,        \* fill: "freq", "pad", "method", "trim", "done"
    fout,       \* fill: what the call ended in
    stats,      \* gof: the stats argument, a string
    statlist,   \* gof: stats once it is a list of names
    gtsd,       \* gof: the table after column selection
    statval,    \* gof: the statistics computed, in order
    gpc,        \* gof: "stats", "shape", "compute", "done"
    gout,       \* gof: what the call ended in
    print_input,    \* convert, add_trend: the print_input argument
    pstack,     \* printiso: the files of the frames on the call stack
    ptsd,       \* printiso: the table to print or to return
    baker_cli,  \* printiso: a frame of baker.py was found
    stdout,     \* _printiso: the lines written to standard output
    pipe,       \* _printiso: the lines standard output takes before it fails
    ppc,        \* printiso: "off", "wait", "scan", "header", "rows", "done"
    pret,       \* printiso: what the call ended in
    ctsd,       \* convert: the table after ingestion (tsd)
    factor,     \* convert: the factor argument
    coffset,    \* convert: the offset argument
    cpc,        \* convert: "off", "compute", "done"
    ttsd,       \* add_trend: the table after ingestion (tsd)
    start_offset,   \* add_trend: the start_offset argument, a string
    end_offset,     \* add_trend: the end_offset argument, a string
    tntsd,      \* add_trend: the trend table ntsd
    tpc,        \* add_trend: "off", "ends", "interpolate", "add", "done"
    tout,       \* add_trend: the exception it ended in, if any
    wtsd,       \* rolling_window: the table after ingestion
    window,     \* rolling_window: the window argument
    wpc,        \* rolling_window: "off", "roll", "done"
    wout,       \* rolling_window: what the call ended in
    type,       \* plot: the type argument
    legend,     \* plot: the legend argument
    logx,       \* plot: the logx argument
    logy,       \* plot: the logy argument
    xaxis,      \* plot: the xaxis argument
    yaxis,      \* plot: the yaxis argument
    xlim,       \* plot: the xlim argument
    ylim,       \* plot: the ylim argument
    shape,      \* plot: the number of data columns of the table, tsd.shape[1]
    ax,         \* plot: the axes drawn: lines, legend, scales and limits
    lpc,        \* plot: "off", "plot", "done"
    lout,       \* plot: the exception it ended in, if any
    xylimits,   \* make_list: the argument
    mpc,        \* make_list: "off", "call", "done"
    mout,       \* make_list: what the call returned
    ktsd,       \* peak_detection: the table after ingestion
    kmethod,    \* peak_detection: the method argument
    kwindow,    \* peak_detection: the window argument
    kpc,        \* peak_detection: "off", "detect", "done"
    kout        \* peak_detection: what the call ended in

rvars == <<pyver, tsd, fp, indat, header, words, lineno, dates, values, rpc, rout>>
fvars == <<ftsd, method, offset, ntsd, fpass, first, fpc, fout>>
gvars == <<stats, statlist, gtsd, statval, gpc, gout>>
pvars == <<print_input, pstack, ptsd, baker_cli, stdout, pipe, ppc, pret>>
cvars == <<ctsd, factor, coffset, cpc>>
tvars == <<ttsd, start_offset, end_offset, tntsd, tpc, tout>>
wvars == <<wtsd, window, wpc, wout>>
lvars == <<type, legend, logx, logy, xaxis, yaxis, xlim, ylim, shape, ax,
           lpc, lout>>
mvars == <<xylimits, mpc, mout>>
kvars == <<ktsd, kmethod, kwindow, kpc, kout>>
xvars == <<lvars, mvars, kvars>>
ovars == <<rvars, fvars, gvars, pvars, cvars, tvars, wvars>>
vars == <<rvars, fvars, gvars, pvars, cvars, tvars, wvars, lvars, mvars, kvars>>

----------------------------------------------------------------------------
(* Bounds *)

MaxLines == 2       \* data lines of an input text
MaxCols == 2        \* value columns of a header or a table
MaxRows == 2        \* rows of a printed table
MaxFillRows == 4    \* rows of a table handed to fill
MaxStats == 2       \* comma-separated names in gof's stats argument
MaxGofCols == 3     \* columns of the table gof receives
MaxFrames == 2      \* frames on the call stack below printiso's own
MaxTrendRows == 4   \* rows of a table handed to add_trend
MaxWindow == 3      \* the window of rolling_window

----------------------------------------------------------------------------
(* Floats *)

Abs(x) == IF x < 0 THEN -x ELSE x

RECURSIVE Gcd(_, _)
Gcd(a, b) == IF b = 0 THEN a ELSE Gcd(b, a % b)

Num(n, d) ==
    LET g == Gcd(Abs(n), Abs(d))
        s == IF d < 0 THEN -1 ELSE 1
    IN  [k |-> "num", n |-> (s * n) \div g, d |-> (s * d) \div g]

NaN == [k |-> "nan", n |-> 0, d |-> 1]
PosInf == [k |-> "inf", n |-> 1, d |-> 1]
NegInf == [k |-> "inf", n |-> -1, d |-> 1]

\* np.isfinite: false for NaN and for both infinities
IsFinite(v) == v.k \in {"num", "r12", "spl"}

\* pd.isnull: the missing value
IsNull(v) == v.k = "nan"

\* Whether n/d is printed exactly with 12 significant digits: the
\* denominator has no prime factor but 2 and 5 (the values here are small).
RECURSIVE Strip25(_)
Strip25(d) ==
    IF d % 2 = 0 THEN Strip25(d \div 2)
    ELSE IF d % 5 = 0 THEN Strip25(d \div 5)
    ELSE d

ShortDecimal(v) == Strip25(v.d) = 1

----------------------------------------------------------------------------
(* Text *)

Tok(c, n, d) == [c |-> c, n |-> n, d |-> d]
Comma == Tok("comma", 0, 1)
Space == Tok("space", 0, 1)
NL == Tok("nl", 0, 1)
Junk == Tok("junk", 0, 1)
Word(i) == Tok("word", i, 1)
DateTok(t) == Tok("date", t, 1)

Datetime == <<Word(0)>>        \* the string 'Datetime'
ColName(i) == <<Word(i)>>      \* the name of value column i

IsSpace(t) == t.c \in {"space", "nl"}

\* str(testval) of a float: repr in Python 3, 12 significant digits in
\* Python 2
StrFloat(py, v) ==
    CASE v.k = "nan" -> <<Tok("nan", 0, 1)>>
      [] v.k = "inf" -> <<Tok("inf", v.n, 1)>>
      [] v.k = "r12" -> <<Tok("r12", v.n, v.d)>>
      [] OTHER -> IF py = 2 /\ ~ShortDecimal(v)
                     THEN <<Tok("r12", v.n, v.d)>>
                     ELSE <<Tok("num", v.n, v.d)>>

RECURSIVE LStrip(_)
LStrip(s) == IF s # <<>> /\ IsSpace(Head(s)) THEN LStrip(Tail(s)) ELSE s

RECURSIVE RStrip(_)
RStrip(s) ==
    IF s # <<>> /\ IsSpace(s[Len(s)]) THEN RStrip(SubSeq(s, 1, Len(s) - 1))
    ELSE s

\* str.strip()
StrStrip(s) == RStrip(LStrip(s))

\* str.split(','): the fields between the commas, at least one
RECURSIVE SplitFrom(_, _, _)
SplitFrom(s, i, cur) ==
    IF i > Len(s) THEN <<cur>>
    ELSE IF s[i] = Comma THEN <<cur>> \o SplitFrom(s, i + 1, <<>>)
    ELSE SplitFrom(s, i + 1, Append(cur, s[i]))

Split(s) == SplitFrom(s, 1, <<>>)

\* ', '.join(parts)
RECURSIVE JoinCommaSpace(_)
JoinCommaSpace(parts) ==
    IF parts = <<>> THEN <<>>
    ELSE IF Len(parts) = 1 THEN parts[1]
    ELSE parts[1] \o <<Comma, Space>> \o JoinCommaSpace(Tail(parts))

\* a conversion that reads every string as zero
ParseFloat_Zero(s) == [ok |-> TRUE, v |-> Num(0, 1)]

\* float(s): the number a string reads as; FALSE in ok when float raises
\* ValueError
ParseFloat(s) ==
    LET t == StrStrip(s) IN
    IF Len(t) # 1 THEN [ok |-> FALSE, v |-> NaN]
    ELSE CASE t[1].c = "num" -> [ok |-> TRUE, v |-> Num(t[1].n, t[1].d)]
           [] t[1].c = "r12" -> [ok |-> TRUE,
                                 v |-> [k |-> "r12", n |-> t[1].n, d |-> t[1].d]]
           [] t[1].c = "inf" -> [ok |-> TRUE,
                                 v |-> IF t[1].n < 0 THEN NegInf ELSE PosInf]
           [] t[1].c = "nan" -> [ok |-> TRUE, v |-> NaN]
           [] OTHER -> [ok |-> FALSE, v |-> NaN]

\* dateutil.parser.parse(s): the timestamp a string reads as; FALSE in ok
\* when parse raises
ParseDate(s) ==
    LET t == StrStrip(s) IN
    IF Len(t) = 1 /\ t[1].c = "date" THEN [ok |-> TRUE, t |-> t[1].n]
    ELSE [ok |-> FALSE, t |-> 0]

----------------------------------------------------------------------------
(* Tables (pandas.DataFrame): index, columns, values by row *)

Table(ix, cols, vals) == [index |-> ix, columns |-> cols, values |-> vals]
NoTable == Table(<<>>, <<>>, <<>>)

\* What a call ended in: nothing yet, a table returned, an exception raised
NoOutcome == [kind |-> "none", exc |-> "", site |-> "", line |-> 0, tbl |-> NoTable]
Returned(t) == [kind |-> "table", exc |-> "", site |-> "", line |-> 0, tbl |-> t]
Raised(exc, site, ln) ==
    [kind |-> "raise", exc |-> exc, site |-> site, line |-> ln, tbl |-> NoTable]

\* left.join(right): a left join on the index, each left row paired with
\* every right row of the same timestamp, in order
RECURSIVE JoinRows(_, _, _, _)
JoinRows(left, right, i, j) ==
    IF i > Len(left.index) THEN <<>>
    ELSE IF j > Len(right.index) THEN
        (IF \E m \in 1..Len(right.index) : right.index[m] = left.index[i]
            THEN <<>>
            ELSE <<[t |-> left.index[i],
                    r |-> left.values[i] \o [c \in 1..Len(right.columns) |-> NaN]]>>)
        \o JoinRows(left, right, i + 1, 1)
    ELSE (IF right.index[j] = left.index[i]
             THEN <<[t |-> left.index[i], r |-> left.values[i] \o right.values[j]]>>
             ELSE <<>>)
         \o JoinRows(left, right, i, j + 1)

Join(left, right) ==
    LET rows == JoinRows(left, right, 1, 1) IN
    Table([i \in 1..Len(rows) |-> rows[i].t],
          left.columns \o right.columns,
          [i \in 1..Len(rows) |-> rows[i].r])

----------------------------------------------------------------------------
(* tsutils._printiso *)

\* _isfinite: the text of a value, a blank for a value that is not finite
IsfiniteStr(py, testval) ==
    IF IsFinite(testval) THEN StrFloat(py, testval) ELSE <<Space>>

\* print('Datetime,', ', '.join(str(i) for i in tsd.columns))
PrintHeader(t) ==
    <<Word(0), Comma, Space>> \o JoinCommaSpace(t.columns) \o <<NL>>

\* print(tsd.index[i], ', ', ', '.join(_isfinite(j) for j in tsd.values[i]))
PrintRow(py, t, i) ==
    <<DateTok(t.index[i]), Space, Comma, Space, Space>>
    \o JoinCommaSpace([c \in 1..Len(t.columns) |-> IsfiniteStr(py, t.values[i][c])])
    \o <<NL>>

PrintisoText(py, t) ==
    <<PrintHeader(t)>> \o [i \in 1..Len(t.index) |-> PrintRow(py, t, i)]

----------------------------------------------------------------------------
(* tsutils.read_iso_ts *)

\* the exceptions read_iso_ts ends in
ColumnCountError(ln) == Raised("ValueError", "record_columns", ln)
DateParseError(ln) == Raised("ValueError", "dateutil_parse", ln)
NoDataError == Raised("ValueError", "no_data", 0)
UnboundResult == Raised("UnboundLocalError", "result", 0)

\* header = fp.readline(); header.split(','); [i.strip() for i in header]
ReadHeaderFields(text) ==
    LET line == IF text = <<>> THEN <<>> ELSE text[1]
        raw == Split(line)
    IN  [i \in 1..Len(raw) |-> StrStrip(raw[i])]

\* for index, col in enumerate(header[1:]):
\*     values.setdefault(col, []).append(float(words[1 + index]) or nan)
RECURSIVE AppendValues(_, _, _, _)
AppendValues(vals, hdr, wds, i) ==
    IF i > Len(hdr) THEN vals
    ELSE LET col == hdr[i]
             f == ParseFloat(wds[i])
             x == IF f.ok THEN f.v ELSE NaN
             old == IF col \in DOMAIN vals THEN vals[col] ELSE <<>>
             new == [c \in DOMAIN vals \cup {col} |->
                        IF c = col THEN Append(old, x) ELSE vals[c]]
         IN  AppendValues(new, hdr, wds, i + 1)

\* for col in header[1:]: result = result.join(DataFrame(Series(values[col],
\* index=dates), columns=[col]))
RECURSIVE BuildResult(_, _, _, _)
BuildResult(result, hdr, i, dv) ==
    IF i > Len(hdr) THEN result
    ELSE LET col == hdr[i]
             tmpres == Table(dv.dates, <<col>>,
                             [r \in 1..Len(dv.dates) |-> <<dv.values[col][r]>>])
         IN  BuildResult(IF i = 2 THEN tmpres ELSE Join(result, tmpres),
                         hdr, i + 1, dv)

EmptyValues == [c \in {} |-> <<>>]

\* a field count check that sees only the lines with too few fields
FieldCountMismatch_TooFew(w, hdr) == Len(w) < Len(hdr)

\* if len(words) != len(header)
FieldCountMismatch(w, hdr) == Len(w) # Len(hdr)

\* a no-data check that never fires
NoDataCollected_Never(ds) == FALSE

\* if len(dates) == 0
NoDataCollected(ds) == Len(ds) = 0

ReadHeader ==
    /\ rpc = "header"
    /\ header' = ReadHeaderFields(fp)
    /\ fp' = IF fp = <<>> THEN <<>> ELSE Tail(fp)
    /\ rpc' = "lines"
    /\ UNCHANGED <<xvars, pyver, tsd, indat, words, lineno, dates, values, rout, fvars, gvars, pvars, cvars, tvars, wvars>>

\* one pass of "for line in fp" that raises at the field count check
ReadLineBadCount ==
    /\ rpc = "lines"
    /\ fp # <<>>
    /\ LET w == Split(Head(fp)) IN
        /\ FieldCountMismatch(w, header)
        /\ words' = w
        /\ lineno' = lineno + 1
        /\ rout' = ColumnCountError(lineno + 1)
        /\ rpc' = "done"
    /\ fp' = Tail(fp)
    /\ UNCHANGED <<xvars, pyver, tsd, indat, header, dates, values, fvars, gvars, pvars, cvars, tvars, wvars>>

\* one pass that raises in dateutil's parse
ReadLineBadDate ==
    /\ rpc = "lines"
    /\ fp # <<>>
    /\ LET w == Split(Head(fp)) IN
        /\ ~FieldCountMismatch(w, header)
        /\ ~ParseDate(w[1]).ok
        /\ words' = w
        /\ lineno' = lineno + 1
        /\ rout' = DateParseError(lineno + 1)
        /\ rpc' = "done"
    /\ fp' = Tail(fp)
    /\ UNCHANGED <<xvars, pyver, tsd, indat, header, dates, values, fvars, gvars, pvars, cvars, tvars, wvars>>

\* one pass that collects the line's timestamp and values
ReadLine ==
    /\ rpc = "lines"
    /\ fp # <<>>
    /\ LET w == Split(Head(fp)) IN
        /\ ~FieldCountMismatch(w, header)
        /\ ParseDate(w[1]).ok
        /\ words' = w
        /\ lineno' = lineno + 1
        /\ dates' = Append(dates, ParseDate(w[1]).t)
        /\ values' = AppendValues(values, header, w, 2)
    /\ fp' = Tail(fp)
    /\ UNCHANGED <<xvars, pyver, tsd, indat, header, rpc, rout, fvars, gvars, pvars, cvars, tvars, wvars>>

\* after the loop: fp.close(), the no-data check, the result
ReadFinish ==
    /\ rpc = "lines"
    /\ fp = <<>>
    /\ rout' = IF NoDataCollected(dates) THEN NoDataError
               ELSE IF Len(header) < 2 THEN UnboundResult
               ELSE Returned(BuildResult(NoTable, header, 2,
                                         [dates |-> dates, values |-> values]))
    /\ rpc' = "done"
    /\ UNCHANGED <<xvars, pyver, tsd, fp, indat, header, words, lineno, dates, values, fvars, gvars, pvars, cvars, tvars, wvars>>

ReadNext == ReadHeader \/ ReadLineBadCount \/ ReadLineBadDate \/ ReadLine
            \/ ReadFinish

----------------------------------------------------------------------------
(* The inputs of read_iso_ts: a header of 1 to MaxCols + 1 names, and up   *)
(* to MaxLines data lines of 1 to MaxCols + 1 fields. A timestamp field is *)
(* a date, a date followed by a blank, or junk; the value fields of a line *)
(* run through a number, an empty field and junk, starting at the number   *)
(* or at the empty field.                                                  *)

TsFields == {<<DateTok(1)>>, <<DateTok(2), Space>>, <<Junk>>}
ValFields == << <<>>, <<Space, Junk>>, <<Space, Tok("num", 3, 2)>> >>

HeaderLine(h) ==
    JoinCommaSpace([i \in 1..h |-> IF i = 1 THEN Datetime ELSE ColName(i - 1)])
    \o <<NL>>

RECURSIVE ValueFields(_, _, _)
ValueFields(p, i, w) ==
    IF i > w THEN <<>>
    ELSE <<Comma>> \o ValFields[((p + i) % 3) + 1] \o ValueFields(p, i + 1, w)

DataLine(ts, w, p) == ts \o ValueFields(p, 2, w) \o <<NL>>

DataLines ==
    {DataLine(ts, w, p) : ts \in TsFields, w \in 1..(MaxCols + 1), p \in 0..1}

RECURSIVE SeqsUpTo(_, _)
SeqsUpTo(S, n) ==
    IF n = 0 THEN {<<>>}
    ELSE LET shorter == SeqsUpTo(S, n - 1) IN
         shorter \cup {Append(s, x) : s \in {t \in shorter : Len(t) = n - 1}, x \in S}

InputTexts ==
    {<<>>} \cup {<<HeaderLine(h)>> \o ls :
                    h \in 1..(MaxCols + 1), ls \in SeqsUpTo(DataLines, MaxLines)}

\* The tables handed to _printiso: 1 to MaxRows rows at the timestamps
\* 1, 2, ..., 1 to MaxCols columns. Each cell of the first column is
\* missing, a finite value or an infinity; the cells of a later column are
\* those of the column before it, moved on by a fixed number of places in
\* CellValues.
CellValues == <<NaN, Num(1, 3), PosInf>>

PrintTables ==
    UNION {{Table([i \in 1..n |-> i], [j \in 1..c |-> ColName(j)],
                  [i \in 1..n |->
                      [j \in 1..c |-> CellValues[((k[i] + (j - 1) * p) % 3) + 1]]]) :
                k \in [1..n -> 0..2], p \in 0..2} :
           n \in 1..MaxRows, c \in 1..MaxCols}

\* the variables of a command that is not running
FillIdle ==
    /\ ftsd = NoTable /\ method = "" /\ offset = 0 /\ ntsd = NoTable
    /\ fpass = 0 /\ first = NoTable /\ fpc = "off" /\ fout = NoOutcome

GofIdle ==
    /\ stats = <<>> /\ statlist = <<>> /\ gtsd = NoTable /\ statval = <<>>
    /\ gpc = "off" /\ gout = NoOutcome

PrintIdle ==
    /\ print_input = FALSE /\ pstack = <<>> /\ ptsd = NoTable
    /\ baker_cli = FALSE /\ stdout = <<>> /\ pipe = 0 /\ ppc = "off"
    /\ pret = NoOutcome

ConvertIdle ==
    /\ ctsd = NoTable /\ factor = NaN /\ coffset = NaN /\ cpc = "off"

TrendIdle ==
    /\ ttsd = NoTable /\ start_offset = <<>> /\ end_offset = <<>>
    /\ tntsd = NoTable /\ tpc = "off" /\ tout = NoOutcome

RollIdle ==
    /\ wtsd = NoTable /\ window = 0 /\ wpc = "off" /\ wout = NoOutcome

\* the axes before anything is drawn on them
NoAxes ==
    [lines |-> <<>>, legend |-> FALSE, logx |-> FALSE, logy |-> FALSE,
     xlim |-> <<>>, ylim |-> <<>>]

PlotIdle ==
    /\ type = "" /\ legend = "" /\ logx = FALSE /\ logy = FALSE
    /\ xaxis = "" /\ yaxis = "" /\ xlim = <<>> /\ ylim = <<>> /\ shape = 0
    /\ ax = NoAxes /\ lpc = "off" /\ lout = NoOutcome

MakeListIdle ==
    /\ xylimits = <<>> /\ mpc = "off" /\ mout = NoOutcome

PeakIdle ==
    /\ ktsd = NoTable /\ kmethod = "" /\ kwindow = 0 /\ kpc = "off"
    /\ kout = NoOutcome

OthersIdle == PlotIdle /\ MakeListIdle /\ PeakIdle

ReadStart ==
    /\ header = <<>>
    /\ words = <<>>
    /\ lineno = 0
    /\ dates = <<>>
    /\ values = EmptyValues
    /\ rout = NoOutcome

\* read_iso_ts called on a text
InitText ==
    /\ pyver = 3
    /\ tsd = NoTable
    /\ indat \in InputTexts
    /\ fp = indat
    /\ rpc = "header"
    /\ ReadStart

\* a table about to be printed by _printiso and read back by read_iso_ts
InitTable ==
    /\ pyver \in {2, 3}
    /\ tsd \in PrintTables
    /\ indat = <<>>
    /\ fp = <<>>
    /\ rpc = "idle"
    /\ ReadStart

InitRead ==
    /\ InitText \/ InitTable
    /\ FillIdle /\ GofIdle /\ PrintIdle /\ ConvertIdle /\ TrendIdle /\ RollIdle
    /\ OthersIdle

\* _printiso(tsd), its output taken as the input of read_iso_ts
Printiso ==
    /\ rpc = "idle"
    /\ indat' = PrintisoText(pyver, tsd)
    /\ fp' = indat'
    /\ rpc' = "header"
    /\ UNCHANGED <<xvars, pyver, tsd, header, words, lineno, dates, values, rout, fvars, gvars, pvars, cvars, tvars, wvars>>

NextRead == Printiso \/ ReadNext

SpecRead == InitRead /\ [][NextRead]_vars

----------------------------------------------------------------------------
(* Claims about read_iso_ts and _printiso, under SpecRead *)

\* the data lines of the input, and the header's field count
DataLinesOf(text) == IF text = <<>> THEN <<>> ELSE Tail(text)
HeaderCount(text) == Len(ReadHeaderFields(text))

BadCountAt(text, i) == Len(Split(DataLinesOf(text)[i])) # HeaderCount(text)
BadDateAt(text, i) == ~ParseDate(Split(DataLinesOf(text)[i])[1]).ok

HasBadCount(text) == \E i \in 1..Len(DataLinesOf(text)) : BadCountAt(text, i)
FirstBadCount(text) ==
    CHOOSE i \in 1..Len(DataLinesOf(text)) :
        BadCountAt(text, i) /\ \A j \in 1..(i - 1) : ~BadCountAt(text, j)
BadDateBefore(text, i) == \E j \in 1..(i - 1) : BadDateAt(text, j)
FirstBadDate(text) ==
    CHOOSE i \in 1..Len(DataLinesOf(text)) :
        BadDateAt(text, i) /\ \A j \in 1..(i - 1) : ~BadDateAt(text, j)

\* C1 as stated: whenever some data line has a field count other than the
\* header's, read_iso_ts ends in the field-count error (the spec's
\* FormatError, raised as a ValueError), raised at the first such line.
C1_FirstBadCountRaises ==
    (rpc = "done" /\ HasBadCount(indat))
        => rout = ColumnCountError(FirstBadCount(indat))

\* C1, amended: whenever some data line has a field count other than the
\* header's, read_iso_ts raises and returns no table; the error is the
\* field-count error at the first such line when the timestamp of every
\* earlier line parses, and otherwise the date parser's error at the first
\* line whose timestamp does not parse.
C1_BadCountRaises ==
    (rpc = "done" /\ HasBadCount(indat))
        => /\ rout.kind = "raise"
           /\ rout.tbl = NoTable
           /\ rout = IF BadDateBefore(indat, FirstBadCount(indat))
                        THEN DateParseError(FirstBadDate(indat))
                        ELSE ColumnCountError(FirstBadCount(indat))

\* a text whose second data line is the first with a wrong field count
C1_Witness ==
    /\ rpc = "done"
    /\ HasBadCount(indat)
    /\ FirstBadCount(indat) = 2
    /\ rout = ColumnCountError(2)

\* C2: a header line followed by zero data lines ends in the no-data error
\* (the spec's EmptyInputError, raised as a ValueError).
C2_HeaderOnlyRaises ==
    (rpc = "done" /\ Len(indat) = 1) => rout = NoDataError

C2_Witness ==
    /\ rpc = "done"
    /\ Len(indat) = 1
    /\ HeaderCount(indat) = 3
    /\ rout = NoDataError

\* C7: printing a table with _printiso and reading the text back with
\* read_iso_ts returns the table: the same timestamps, column names and
\* cells, a missing cell missing and every float value that value.
C7_RoundTrip ==
    (rpc = "done" /\ tsd # NoTable) => rout = Returned(tsd)

\* C8: the timestamps of every table read_iso_ts returns are strictly
\* increasing (hence unique), whatever the order or repetition of the
\* timestamps on the input lines.
StrictlyIncreasing(ix) == \A i \in 1..(Len(ix) - 1) : ix[i] < ix[i + 1]

C8_IndexIncreasing ==
    rout.kind = "table" => StrictlyIncreasing(rout.tbl.index)

\* the tokens of a field that are no blank and no line end
Visible(field) == SelectSeq(field, LAMBDA t : ~IsSpace(t))

\* what a value field is to be stored as: its number when it is one number
\* literal, the missing value when it is blank or anything else
StoredAs(field) ==
    LET t == Visible(field) IN
    IF Len(t) = 1 /\ t[1].c \in {"num", "r12"}
        THEN [k |-> t[1].c, n |-> t[1].n, d |-> t[1].d]
    ELSE IF Len(t) = 1 /\ t[1].c = "inf" THEN (IF t[1].n < 0 THEN NegInf ELSE PosInf)
    ELSE NaN

\* every data line has the header's field count and a timestamp that parses
AllLinesAccepted(text) ==
    \A i \in 1..Len(DataLinesOf(text)) : ~BadCountAt(text, i) /\ ~BadDateAt(text, i)

\* C16: for every data line read_iso_ts accepts, each value field is stored
\* as its number when it parses as one and as the missing value when it is
\* blank or does not parse, and no error is raised for it: a text whose
\* lines are all accepted, with a value column and a data line, yields a
\* table that has, for every line, a row with the line's timestamp and
\* stored values.
C16_BlankOrBadValueMissing ==
    /\ rpc \in {"lines", "done"} =>
          \A r \in 1..Len(dates) : \A c \in 2..Len(header) :
              values[header[c]][r] = StoredAs(Split(DataLinesOf(indat)[r])[c])
    /\ (/\ rpc = "done"
        /\ AllLinesAccepted(indat)
        /\ HeaderCount(indat) >= 2
        /\ Len(indat) >= 2)
          => /\ rout.kind = "table"
             /\ \A r \in 1..Len(DataLinesOf(indat)) :
                   \E j \in 1..Len(rout.tbl.index) :
                       /\ rout.tbl.index[j] = dates[r]
                       /\ \A c \in 2..Len(header) :
                             rout.tbl.values[j][c - 1]
                                 = StoredAs(Split(DataLinesOf(indat)[r])[c])

\* a line with a number, then a line with an empty field and junk, both kept
C16_Witness ==
    /\ rpc = "done"
    /\ rout.kind = "table"
    /\ tsd = NoTable
    /\ Len(rout.tbl.index) = 2
    /\ Len(rout.tbl.columns) = 2
    /\ rout.tbl.index[1] # rout.tbl.index[2]
    /\ \E i, j \in 1..2 :
          /\ rout.tbl.values[i][1] = Num(3, 2)
          /\ Visible(Split(DataLinesOf(indat)[j])[2]) = <<>>
          /\ Visible(Split(DataLinesOf(indat)[j])[3]) = <<Junk>>
          /\ IsNull(rout.tbl.values[j][1])
          /\ IsNull(rout.tbl.values[j][2])

\* C27: every call of read_iso_ts on a text ends in a table, in the
\* field-count error or in the no-data error, whatever the header (one that
\* names only the date column included) and the timestamp fields.
C27_ThreeOutcomes ==
    rpc = "done" =>
        \/ rout.kind = "table"
        \/ \E ln \in 1..Len(DataLinesOf(indat)) : rout = ColumnCountError(ln)
        \/ rout = NoDataError

----------------------------------------------------------------------------
(* Arithmetic on the finite values n/d *)

Add(a, b) == Num(a.n * b.d + b.n * a.d, a.d * b.d)
Sub(a, b) == Num(a.n * b.d - b.n * a.d, a.d * b.d)
Mul(a, b) == Num(a.n * b.n, a.d * b.d)
DivInt(a, m) == Num(a.n, a.d * m)
Less(a, b) == a.n * b.d < b.n * a.d

\* the values of column c, by row
Column(t, c) == [i \in 1..Len(t.index) |-> t.values[i][c]]

NotNull(v) == ~IsNull(v)
DropNa(col) == SelectSeq(col, NotNull)

RECURSIVE SumSeq(_)
SumSeq(col) == IF col = <<>> THEN Num(0, 1) ELSE Add(Head(col), SumSeq(Tail(col)))

\* Series.mean(), Series.max(), Series.min(), Series.median(): the missing
\* values skipped, NaN for a column of missing values only
Mean(col) ==
    LET x == DropNa(col) IN
    IF x = <<>> THEN NaN ELSE DivInt(SumSeq(x), Len(x))

Max(col) ==
    LET x == DropNa(col) IN
    IF x = <<>> THEN NaN
    ELSE x[CHOOSE i \in 1..Len(x) : \A j \in 1..Len(x) : ~Less(x[i], x[j])]

Min(col) ==
    LET x == DropNa(col) IN
    IF x = <<>> THEN NaN
    ELSE x[CHOOSE i \in 1..Len(x) : \A j \in 1..Len(x) : ~Less(x[j], x[i])]

\* the k-th smallest of x (k from 1)
KthSmallest(x, k) ==
    x[CHOOSE i \in 1..Len(x) :
        /\ Cardinality({j \in 1..Len(x) : Less(x[j], x[i])}) < k
        /\ Cardinality({j \in 1..Len(x) : ~Less(x[i], x[j])}) >= k]

Median(col) ==
    LET x == DropNa(col)
        n == Len(x)
    IN  IF n = 0 THEN NaN
        ELSE IF n % 2 = 1 THEN KthSmallest(x, (n + 1) \div 2)
        ELSE DivInt(Add(KthSmallest(x, n \div 2), KthSmallest(x, n \div 2 + 1)), 2)

\* a statistic that is the maximum whatever its name
Stat_Max(name, col) == Max(col)

Stat(name, col) ==
    CASE name = "mean" -> Mean(col)
      [] name = "median" -> Median(col)
      [] name = "max" -> Max(col)
      [] name = "min" -> Min(col)

\* DataFrame.mean(), .median(), .max(), .min(): one statistic per column
ColumnStats(t, name) == [c \in 1..Len(t.columns) |-> Stat(name, Column(t, c))]

----------------------------------------------------------------------------
(* tstoolbox.functions.fill *)

Keywords == {"ffill", "bfill", "linear", "nearest", "zero", "slinear",
             "quadratic", "cubic", "mean", "median", "max", "min"}

InterpKinds == {"nearest", "zero", "slinear", "quadratic", "cubic"}

\* the text of the method strings that are no keyword
MethodText(m) ==
    CASE m = "2.5" -> <<Tok("num", 5, 2)>>
      [] m = "nan" -> <<Tok("nan", 0, 1)>>
      [] OTHER -> <<Junk>>

\* a conversion that yields zero for every string
FloatOfMethod_Zero(m) == [ok |-> TRUE, v |-> Num(0, 1)]

\* float(method)
FloatOfMethod(m) == ParseFloat(MethodText(m))

\* the exceptions fill ends in
FrequencyError == Raised("FrequencyError", "asbestfreq", 0)
IndexError == Raised("IndexError", "index_1", 0)
InterpError == Raised("ValueError", "interp1d", 0)
MethodError == Raised("ValueError", "method", 0)

\* tsutils.asbestfreq: the frequency is the constant interval between
\* consecutive timestamps; the inference fails when the intervals differ
RegularIndex(ix) ==
    \A i, j \in 1..(Len(ix) - 1) : ix[i + 1] - ix[i] = ix[j + 1] - ix[j]

\* padding rows that repeat the first row of the table
PadRow_FirstRow(t) == t.values[1]

\* predf and postf hold tsd.mean() of every column
PadRow(t) == ColumnStats(t, "mean")

\* pd.concat([predf, ntsd, postf]) with predf at tsd.index[0] - offset and
\* postf at tsd.index[-1] + offset
Pad(t, nt, off) ==
    Table(<<t.index[1] - off>> \o nt.index \o <<t.index[Len(t.index)] + off>>,
          nt.columns,
          <<PadRow(t)>> \o nt.values \o <<PadRow(t)>>)

\* the earliest row before row i whose value is not missing, 0 if none
PrevValid_Earliest(col, i) ==
    IF \E j \in 1..(i - 1) : NotNull(col[j])
        THEN CHOOSE j \in 1..(i - 1) :
                NotNull(col[j]) /\ \A m \in 1..(j - 1) : IsNull(col[m])
        ELSE 0

\* the nearest row before (after) row i whose value is not missing, 0 if none
PrevValid(col, i) ==
    IF \E j \in 1..(i - 1) : NotNull(col[j])
        THEN CHOOSE j \in 1..(i - 1) :
                NotNull(col[j]) /\ \A m \in (j + 1)..(i - 1) : IsNull(col[m])
        ELSE 0

NextValid(col, i) ==
    IF \E j \in (i + 1)..Len(col) : NotNull(col[j])
        THEN CHOOSE j \in (i + 1)..Len(col) :
                NotNull(col[j]) /\ \A m \in (i + 1)..(j - 1) : IsNull(col[m])
        ELSE 0

\* the value at time x on the line through (x0, y0) and (x1, y1)
OnLine(x0, y0, x1, y1, x) ==
    Add(y0, DivInt(Mul(Sub(y1, y0), Num(x - x0, 1)), x1 - x0))

\* the finite value of a quadratic or cubic spline, not computed
SplineValue == [k |-> "spl", n |-> 0, d |-> 1]

\* interp1d's least number of points: the spline's order plus one
MinPoints(kind) ==
    CASE kind = "nearest" -> 1
      [] kind = "zero" -> 1
      [] kind = "slinear" -> 2
      [] kind = "quadratic" -> 3
      [] kind = "cubic" -> 4

\* interp1d(...) raises for a column with too few points, and f(x) raises
\* for an x outside the points' range
InterpRaises(t, kind) ==
    \E c \in 1..Len(t.columns) :
        LET col == Column(t, c) IN
        \/ Len(DropNa(col)) < MinPoints(kind)
        \/ \E i \in 1..Len(col) :
              IsNull(col[i]) /\ (PrevValid(col, i) = 0 \/ NextValid(col, i) = 0)

\* what the method puts in the missing cell of row i of a column
FillValue(t, m, col, i) ==
    LET p == PrevValid(col, i)
        q == NextValid(col, i)
        ix == t.index
    IN  CASE m = "ffill" -> IF p = 0 THEN NaN ELSE col[p]
          [] m = "bfill" -> IF q = 0 THEN NaN ELSE col[q]
          [] m = "linear" ->
                IF p = 0 THEN NaN
                ELSE IF q = 0 THEN col[p]
                ELSE OnLine(ix[p], col[p], ix[q], col[q], ix[i])
          [] m = "nearest" ->
                IF ix[i] - ix[p] <= ix[q] - ix[i] THEN col[p] ELSE col[q]
          [] m = "zero" -> col[p]
          [] m = "slinear" -> OnLine(ix[p], col[p], ix[q], col[q], ix[i])
          [] m \in {"quadratic", "cubic"} -> SplineValue
          [] m \in {"mean", "median", "max", "min"} -> Stat(m, col)
          [] OTHER -> FloatOfMethod(m).v

\* a method that leaves every missing cell missing
ApplyMethod_Keep(t, m) == t

\* the if/elif chain over method, on the padded table
ApplyMethod(t, m) ==
    Table(t.index, t.columns,
          [i \in 1..Len(t.index) |->
              [c \in 1..Len(t.columns) |->
                  IF NotNull(t.values[i][c]) THEN t.values[i][c]
                  ELSE FillValue(t, m, Column(t, c), i)]])

\* a trim that removes the first row only
Trim_FirstOnly(t) ==
    Table(Tail(t.index), t.columns, Tail(t.values))

\* ntsd.iloc[1:-1]
Trim(t) ==
    Table(SubSeq(t.index, 2, Len(t.index) - 1), t.columns,
          SubSeq(t.values, 2, Len(t.values) - 1))

\* tsutils.return_input with print_input False: the output table
ReturnInput(input, output) == output

\* ntsd = tsutils.asbestfreq(ntsd)
FillFreq ==
    /\ fpc = "freq"
    /\ RegularIndex(ntsd.index)
    /\ fpc' = "pad"
    /\ UNCHANGED <<xvars, ftsd, method, offset, ntsd, fpass, first, fout, rvars, gvars, pvars, cvars, tvars, wvars>>

FillFreqFail ==
    /\ fpc = "freq"
    /\ ~RegularIndex(ntsd.index)
    /\ fout' = FrequencyError
    /\ fpc' = "done"
    /\ UNCHANGED <<xvars, ftsd, method, offset, ntsd, fpass, first, rvars, gvars, pvars, cvars, tvars, wvars>>

\* offset = ntsd.index[1] - ntsd.index[0], predf, postf, pd.concat
FillPad ==
    /\ fpc = "pad"
    /\ Len(ntsd.index) >= 2
    /\ offset' = ntsd.index[2] - ntsd.index[1]
    /\ ntsd' = Pad(ftsd, ntsd, offset')
    /\ fpc' = "method"
    /\ UNCHANGED <<xvars, ftsd, method, fpass, first, fout, rvars, gvars, pvars, cvars, tvars, wvars>>

\* ntsd.index[1] of a table of one row
FillPadFail ==
    /\ fpc = "pad"
    /\ Len(ntsd.index) < 2
    /\ fout' = IndexError
    /\ fpc' = "done"
    /\ UNCHANGED <<xvars, ftsd, method, offset, ntsd, fpass, first, rvars, gvars, pvars, cvars, tvars, wvars>>

FillMethod ==
    /\ fpc = "method"
    /\ method \in Keywords \/ FloatOfMethod(method).ok
    /\ ~(method \in InterpKinds /\ InterpRaises(ntsd, method))
    /\ ntsd' = ApplyMethod(ntsd, method)
    /\ fpc' = "trim"
    /\ UNCHANGED <<xvars, ftsd, method, offset, fpass, first, fout, rvars, gvars, pvars, cvars, tvars, wvars>>

FillMethodInterpFail ==
    /\ fpc = "method"
    /\ method \in InterpKinds
    /\ InterpRaises(ntsd, method)
    /\ fout' = InterpError
    /\ fpc' = "done"
    /\ UNCHANGED <<xvars, ftsd, method, offset, ntsd, fpass, first, rvars, gvars, pvars, cvars, tvars, wvars>>

FillMethodBad ==
    /\ fpc = "method"
    /\ method \notin Keywords
    /\ ~FloatOfMethod(method).ok
    /\ fout' = MethodError
    /\ fpc' = "done"
    /\ UNCHANGED <<xvars, ftsd, method, offset, ntsd, fpass, first, rvars, gvars, pvars, cvars, tvars, wvars>>

\* ntsd = ntsd.iloc[1:-1]; return tsutils.return_input(...)
FillTrim ==
    /\ fpc = "trim"
    /\ ntsd' = Trim(ntsd)
    /\ fout' = Returned(ReturnInput(ftsd, ntsd'))
    /\ fpc' = "done"
    /\ UNCHANGED <<xvars, ftsd, method, offset, fpass, first, rvars, gvars, pvars, cvars, tvars, wvars>>

\* the caller applies fill, with the same method, to the table fill
\* returned; read_iso_ts hands a DataFrame through
FillAgain ==
    /\ fpc = "done"
    /\ fpass = 1
    /\ fout.kind = "table"
    /\ method \in {"ffill", "bfill"}
    /\ first' = fout.tbl
    /\ ftsd' = fout.tbl
    /\ ntsd' = fout.tbl
    /\ fpass' = 2
    /\ fout' = NoOutcome
    /\ fpc' = "freq"
    /\ UNCHANGED <<xvars, method, offset, rvars, gvars, pvars, cvars, tvars, wvars>>

NextFill == FillFreq \/ FillFreqFail \/ FillPad \/ FillPadFail \/ FillMethod
            \/ FillMethodInterpFail \/ FillMethodBad \/ FillTrim \/ FillAgain

\* The tables fill receives: 1 to MaxFillRows rows from time 0 on, the
\* intervals all 1, all 2, or 1 then 2 (irregular). Each cell of the first
\* column is missing or one of two values; a second column, when there is
\* one, is all missing, all 4, or 1 below a missing first cell.
FillValues == {NaN, Num(1, 1), Num(4, 1)}
Intervals == {<<1, 1>>, <<2, 2>>, <<1, 2>>}

\* n timestamps from 0 on, the first interval g[1], the others g[2]
FillIndex(n, g) ==
    [i \in 1..n |-> IF i = 1 THEN 0 ELSE g[1] + (i - 2) * g[2]]

SecondColumns(n) ==
    {[i \in 1..n |-> NaN],
     [i \in 1..n |-> Num(4, 1)],
     [i \in 1..n |-> IF i = 1 THEN NaN ELSE Num(1, 1)]}

FillTables ==
    UNION {{Table(FillIndex(n, g), <<ColName(1)>>, [i \in 1..n |-> <<a[i]>>]) :
                a \in [1..n -> FillValues], g \in Intervals}
           \cup {Table(FillIndex(n, g), <<ColName(1), ColName(2)>>,
                       [i \in 1..n |-> <<a[i], b[i]>>]) :
                    a \in [1..n -> FillValues], b \in SecondColumns(n),
                    g \in Intervals} :
           n \in 1..MaxFillRows}

FillMethods == Keywords \cup {"2.5", "nan", "camel"}

\* the variables of read_iso_ts when no text is read
ReadIdle ==
    /\ pyver = 3 /\ tsd = NoTable /\ indat = <<>> /\ fp = <<>> /\ rpc = "off"
    /\ ReadStart

InitFill ==
    /\ ftsd \in FillTables
    /\ method \in FillMethods
    /\ ntsd = ftsd
    /\ offset = 0
    /\ fpass = 1
    /\ first = NoTable
    /\ fpc = "freq"
    /\ fout = NoOutcome
    /\ ReadIdle
    /\ GofIdle /\ PrintIdle /\ ConvertIdle /\ TrendIdle /\ RollIdle
    /\ OthersIdle

SpecFill == InitFill /\ [][NextFill]_vars

----------------------------------------------------------------------------
(* Claims about fill, under SpecFill *)

HasNull(t) ==
    \E i \in 1..Len(t.index) : \E c \in 1..Len(t.columns) : IsNull(t.values[i][c])

Recognized(m) == m \in Keywords \/ FloatOfMethod(m).ok

\* C3: for every ingested table, of any number of rows >= 1, fill with a
\* method that is no keyword and does not parse as a number raises
\* ValueError.
C3_BadMethodRaises ==
    (fpc = "done" /\ RegularIndex(ftsd.index) /\ ~Recognized(method))
        => (fout.kind = "raise" /\ fout.exc = "ValueError")

\* C4: for every keyword and every method that parses as a number, and
\* every table whose columns each hold a value, fill returns a table with
\* no missing entry, the columns and the number of rows of the input.
C4_FullyPopulated ==
    (/\ fpc = "done"
     /\ RegularIndex(ftsd.index)
     /\ Recognized(method)
     /\ \A c \in 1..Len(ftsd.columns) : DropNa(Column(ftsd, c)) # <<>>)
        => /\ fout.kind = "table"
           /\ ~HasNull(fout.tbl)
           /\ fout.tbl.columns = ftsd.columns
           /\ Len(fout.tbl.index) = Len(ftsd.index)

\* C5: fill puts one row one sampling interval before the first timestamp
\* and one after the last, each holding the column means of the input,
\* applies the method to the padded table and removes those two rows: the
\* output's timestamps are the input's, in the same order.
C5_PadAndTrim ==
    LET n == Len(ftsd.index)
        gap == ftsd.index[2] - ftsd.index[1]
        means == [c \in 1..Len(ftsd.columns) |-> Mean(Column(ftsd, c))]
    IN  /\ fpc \in {"method", "trim"} =>
              /\ ntsd.index = <<ftsd.index[1] - gap>> \o ftsd.index
                                  \o <<ftsd.index[n] + gap>>
              /\ Len(ntsd.values) = n + 2
        /\ fpc = "method" =>
              ntsd.values = <<means>> \o ftsd.values \o <<means>>
        /\ (fpc = "done" /\ fout.kind = "table") =>
              /\ fout.tbl.index = ftsd.index
              /\ fout.tbl = ntsd

\* a table of three rows, two hours apart, one cell missing, filled
C5_Witness ==
    /\ fpc = "done"
    /\ fpass = 1
    /\ fout.kind = "table"
    /\ ftsd.index = <<0, 2, 4>>
    /\ fout.tbl.index = <<0, 2, 4>>
    /\ HasNull(ftsd)
    /\ method = "linear"

InputStatistic(name, col) ==
    LET x == DropNa(col) IN
    CASE name = "mean" -> Mean(x)
      [] name = "median" -> Median(x)
      [] name = "max" -> Max(x)
      [] name = "min" -> Min(x)

\* fill returned a table in which every entry the input holds is kept and
\* every missing entry of the input is the statistic name of the non-missing
\* values of its input column
StatFilled(name) ==
    /\ fout.kind = "table"
    /\ Len(fout.tbl.values) = Len(ftsd.values)
    /\ \A i \in 1..Len(ftsd.index) : \A c \in 1..Len(ftsd.columns) :
          fout.tbl.values[i][c] =
              IF NotNull(ftsd.values[i][c]) THEN ftsd.values[i][c]
              ELSE InputStatistic(name, Column(ftsd, c))

\* C12: fill with method median puts, in each missing entry, the median of
\* the non-missing values of the same input column.
C12_MedianFill ==
    (fpc = "done" /\ fpass = 1 /\ method = "median" /\ fout.kind = "table")
        => StatFilled("median")

\* C13: fill with method mean, max or min puts, in each missing entry, the
\* mean, the maximum or the minimum of the non-missing values of the same
\* input column, and the statistic of a padded column is that of the input
\* column.
C13_MeanMaxMinFill ==
    method \in {"mean", "max", "min"} =>
        /\ fpc = "method" =>
              \A c \in 1..Len(ftsd.columns) :
                  Stat(method, Column(ntsd, c)) = InputStatistic(method, Column(ftsd, c))
        /\ (fpc = "done" /\ fpass = 1 /\ fout.kind = "table") => StatFilled(method)

\* a column holding 1, 4 and a missing entry, filled with its maximum
C13_Witness ==
    /\ fpc = "done"
    /\ method = "max"
    /\ fout.kind = "table"
    /\ \E i, j, m \in 1..Len(ftsd.index) :
          /\ ftsd.values[i][1] = Num(1, 1)
          /\ ftsd.values[j][1] = Num(4, 1)
          /\ IsNull(ftsd.values[m][1])
          /\ fout.tbl.values[m][1] = Num(4, 1)

\* C14: fill with a method that is no keyword and parses as a number puts
\* that number in every missing entry of every column, and keeps the other
\* entries.
C14_NumberFill ==
    (/\ fpc = "done"
     /\ fpass = 1
     /\ method \notin Keywords
     /\ ParseFloat(MethodText(method)).ok
     /\ fout.kind = "table")
        => /\ Len(fout.tbl.values) = Len(ftsd.values)
           /\ \A i \in 1..Len(ftsd.index) : \A c \in 1..Len(ftsd.columns) :
                 fout.tbl.values[i][c] =
                     IF NotNull(ftsd.values[i][c]) THEN ftsd.values[i][c]
                     ELSE ParseFloat(MethodText(method)).v

\* a table of two columns with a missing entry in each, filled with 2.5
C14_Witness ==
    /\ fpc = "done"
    /\ method = "2.5"
    /\ fout.kind = "table"
    /\ Len(ftsd.columns) = 2
    /\ \E i, j \in 1..Len(ftsd.index) :
          /\ IsNull(ftsd.values[i][1]) /\ fout.tbl.values[i][1] = Num(5, 2)
          /\ IsNull(ftsd.values[j][2]) /\ fout.tbl.values[j][2] = Num(5, 2)

\* C15: with ffill a missing entry that has a non-missing entry earlier in
\* its column takes the value of the nearest earlier one; with bfill a
\* missing entry that has a non-missing entry later in its column takes the
\* value of the nearest later one.
C15_NearestNeighbourFill ==
    (fpc = "done" /\ fpass = 1 /\ fout.kind = "table") =>
        \A i \in 1..Len(ftsd.index) : \A c \in 1..Len(ftsd.columns) :
            LET col == Column(ftsd, c)
                out == fout.tbl.values[i][c]
            IN  IsNull(col[i]) =>
                  /\ method = "ffill" =>
                        \A j \in 1..(i - 1) :
                            (NotNull(col[j]) /\ \A m \in (j + 1)..(i - 1) : IsNull(col[m]))
                                => out = col[j]
                  /\ method = "bfill" =>
                        \A j \in (i + 1)..Len(col) :
                            (NotNull(col[j]) /\ \A m \in (i + 1)..(j - 1) : IsNull(col[m]))
                                => out = col[j]

\* a column 1, 4, missing filled forward: the missing entry becomes 4
C15_Witness ==
    /\ fpc = "done"
    /\ fpass = 1
    /\ method = "ffill"
    /\ fout.kind = "table"
    /\ Len(ftsd.index) >= 3
    /\ ftsd.values[1][1] = Num(1, 1)
    /\ ftsd.values[2][1] = Num(4, 1)
    /\ IsNull(ftsd.values[3][1])
    /\ fout.tbl.values[3][1] = Num(4, 1)


----------------------------------------------------------------------------
(* tstoolbox.functions.gof *)

\* a statistic's name in the stats string
StatWord(name) == <<Tok(name, 0, 1)>>

AllStats == <<StatWord("bias"), StatWord("rmsd"), StatWord("crmsd"),
              StatWord("corrcoef"), StatWord("ss")>>

\* if stats == 'all': ... else: stats = stats.split(',')
StatList(s) == IF s = StatWord("all") THEN AllStats ELSE Split(s)

InList(name, lst) == \E i \in 1..Len(lst) : lst[i] = StatWord(name)

\* a column check that lets a table of more than two columns through
WrongColumnCount_TooFew(t) == Len(t.columns) < 2

\* if len(tsd.columns) != 2
WrongColumnCount(t) == Len(t.columns) # 2

GofColumnsError == Raised("ValueError", "gof_columns", 0)

\* the if 'bias' in stats ... if 'ss' in stats chain: the labels appended
StatLabels(lst) ==
    (IF InList("bias", lst) THEN <<"Bias">> ELSE <<>>)
    \o (IF InList("rmsd", lst) THEN <<"rmsd">> ELSE <<>>)
    \o (IF InList("crmsd", lst) THEN <<"crmsd">> ELSE <<>>)
    \o (IF InList("corrcoef", lst) THEN <<"corrcoef">> ELSE <<>>)
    \o (IF InList("ss", lst) THEN <<"Skill score (Murphy)">> ELSE <<>>)

GofStats ==
    /\ gpc = "stats"
    /\ statlist' = StatList(stats)
    /\ gpc' = "shape"
    /\ UNCHANGED <<xvars, stats, gtsd, statval, gout, rvars, fvars, pvars, cvars, tvars, wvars>>

GofShapeFail ==
    /\ gpc = "shape"
    /\ WrongColumnCount(gtsd)
    /\ gout' = GofColumnsError
    /\ gpc' = "done"
    /\ UNCHANGED <<xvars, stats, statlist, gtsd, statval, rvars, fvars, pvars, cvars, tvars, wvars>>

GofShape ==
    /\ gpc = "shape"
    /\ ~WrongColumnCount(gtsd)
    /\ gpc' = "compute"
    /\ UNCHANGED <<xvars, stats, statlist, gtsd, statval, gout, rvars, fvars, pvars, cvars, tvars, wvars>>

\* the statistics, and the table of them handed to printiso
GofCompute ==
    /\ gpc = "compute"
    /\ statval' = StatLabels(statlist)
    /\ gout' = Returned(NoTable)
    /\ gpc' = "done"
    /\ UNCHANGED <<xvars, stats, statlist, gtsd, rvars, fvars, pvars, cvars, tvars, wvars>>

NextGof == GofStats \/ GofShapeFail \/ GofShape \/ GofCompute

\* The stats arguments: 'all', or 1 to MaxStats comma-separated names, each
\* a statistic of gof or 'camel'. The table has 0 to MaxGofCols columns.
StatNames == {"bias", "rmsd", "crmsd", "corrcoef", "ss", "camel"}
KnownStats == {"bias", "rmsd", "crmsd", "corrcoef", "ss"}

RECURSIVE JoinComma(_)
JoinComma(parts) ==
    IF parts = <<>> THEN <<>>
    ELSE IF Len(parts) = 1 THEN parts[1]
    ELSE parts[1] \o <<Comma>> \o JoinComma(Tail(parts))

StatsArguments ==
    {StatWord("all")}
    \cup {JoinComma(names) :
            names \in SeqsUpTo({StatWord(x) : x \in StatNames}, MaxStats) \ {<<>>}}

GofTables ==
    {Table(<<1, 2>>, [j \in 1..c |-> ColName(j)],
           [i \in 1..2 |-> [j \in 1..c |-> Num(i, 1)]]) : c \in 0..MaxGofCols}

InitGof ==
    /\ stats \in StatsArguments
    /\ statlist = <<>>
    /\ gtsd \in GofTables
    /\ statval = <<>>
    /\ gpc = "stats"
    /\ gout = NoOutcome
    /\ ReadIdle
    /\ FillIdle /\ PrintIdle /\ ConvertIdle /\ TrendIdle /\ RollIdle
    /\ OthersIdle

SpecGof == InitGof /\ [][NextGof]_vars

----------------------------------------------------------------------------
(* Claims about gof, under SpecGof *)

\* C9: gof raises the column-count error (the spec's ShapeError, raised as
\* a ValueError) when the table it receives after column selection has a
\* number of columns other than two, and computes no statistic.
C9_NotTwoColumnsRaises ==
    (gpc = "done" /\ Len(gtsd.columns) # 2)
        => (gout = GofColumnsError /\ statval = <<>>)

C9_Witness ==
    /\ gpc = "done"
    /\ Len(gtsd.columns) = 3
    /\ gout = GofColumnsError
    /\ statval = <<>>

\* C10: gof called with a stats entry outside bias, rmsd, crmsd, corrcoef,
\* ss raises ValueError.
UnknownEntry(lst) ==
    \E i \in 1..Len(lst) : \A x \in KnownStats : lst[i] # StatWord(x)

C10_UnknownStatRaises ==
    (gpc = "done" /\ UnknownEntry(statlist))
        => (gout.kind = "raise" /\ gout.exc = "ValueError")

----------------------------------------------------------------------------
(* tsutils.printiso and the try/except of tsutils._printiso *)

\* the file of a frame, a path from its directory to its name
BakerFile == <<"site-packages", "baker.py">>      \* the dispatcher's module
TsutilsFile == <<"tsutils", "__init__.py">>       \* printiso's own frame
Frames == {BakerFile, <<"home", "baker.py">>, <<"home", "script.py">>}

\* os.path.basename
Basename(path) == path[Len(path)]

\* a call that returned None, after it caught the exception exc ("" if none)
Nothing(exc) ==
    [kind |-> "nothing", exc |-> exc, site |-> "", line |-> 0, tbl |-> NoTable]

\* for i in traceback.extract_stack(): basename(i[0]) == 'baker.py'
FoundBaker(stack) == \E i \in 1..Len(stack) : Basename(stack[i]) = "baker.py"

\* the stack loop finds baker.py: _printiso(tsd) is called
PrintisoScan ==
    /\ ppc = "scan"
    /\ FoundBaker(pstack)
    /\ baker_cli' = TRUE
    /\ ppc' = "header"
    /\ UNCHANGED <<xvars, print_input, pstack, ptsd, stdout, pipe, pret,
                   rvars, fvars, gvars, cvars, tvars, wvars>>

\* the stack loop finds no baker.py: return tsd
PrintisoReturn ==
    /\ ppc = "scan"
    /\ ~FoundBaker(pstack)
    /\ pret' = Returned(ptsd)
    /\ ppc' = "done"
    /\ UNCHANGED <<xvars, print_input, pstack, ptsd, baker_cli, stdout, pipe,
                   rvars, fvars, gvars, cvars, tvars, wvars>>

\* print('Datetime,', ...)
PrintHeaderLine ==
    /\ ppc = "header"
    /\ Len(stdout) < pipe
    /\ stdout' = Append(stdout, PrintHeader(ptsd))
    /\ ppc' = "rows"
    /\ UNCHANGED <<xvars, print_input, pstack, ptsd, baker_cli, pipe, pret,
                   rvars, fvars, gvars, cvars, tvars, wvars>>

\* print(tsd.index[i], ', ', ...) for the next row
PrintRowLine ==
    /\ ppc = "rows"
    /\ Len(stdout) <= Len(ptsd.index)
    /\ Len(stdout) < pipe
    /\ stdout' = Append(stdout, PrintRow(pyver, ptsd, Len(stdout)))
    /\ UNCHANGED <<xvars, print_input, pstack, ptsd, baker_cli, pipe, ppc, pret,
                   rvars, fvars, gvars, cvars, tvars, wvars>>

\* print raises IOError: except IOError: return
PrintIOError ==
    /\ ppc \in {"header", "rows"}
    /\ Len(stdout) <= Len(ptsd.index)
    /\ Len(stdout) >= pipe
    /\ pret' = Nothing("IOError")
    /\ ppc' = "done"
    /\ UNCHANGED <<xvars, print_input, pstack, ptsd, baker_cli, stdout, pipe,
                   rvars, fvars, gvars, cvars, tvars, wvars>>

\* the loop over the rows ends: _printiso and printiso return None
PrintFinish ==
    /\ ppc = "rows"
    /\ Len(stdout) > Len(ptsd.index)
    /\ pret' = Nothing("")
    /\ ppc' = "done"
    /\ UNCHANGED <<xvars, print_input, pstack, ptsd, baker_cli, stdout, pipe,
                   rvars, fvars, gvars, cvars, tvars, wvars>>

NextPrint == PrintisoScan \/ PrintisoReturn \/ PrintHeaderLine \/ PrintRowLine
             \/ PrintIOError \/ PrintFinish

\* The calls of printiso: up to MaxFrames frames below its own, a table of
\* one column, and a standard output that fails at its first, a later or no
\* line.
InitPrint ==
    /\ print_input = FALSE
    /\ pstack \in {st \o <<TsutilsFile>> : st \in SeqsUpTo(Frames, MaxFrames)}
    /\ ptsd \in {t \in PrintTables : Len(t.columns) = 1}
    /\ baker_cli = FALSE
    /\ stdout = <<>>
    /\ pipe \in 0..(MaxRows + 1)
    /\ ppc = "scan"
    /\ pret = NoOutcome
    /\ ReadIdle /\ FillIdle /\ GofIdle /\ ConvertIdle /\ TrendIdle /\ RollIdle
    /\ OthersIdle

SpecPrint == InitPrint /\ [][NextPrint]_vars

----------------------------------------------------------------------------
(* Claims about printiso and _printiso, under SpecPrint *)

\* a frame of the dispatcher's module is on the call stack
DispatcherOnStack == \E i \in 1..Len(pstack) : pstack[i] = BakerFile

\* standard output fails before the header and the rows are written
OutputFails == pipe < Len(ptsd.index) + 1

\* C11: an error raised while the table is printed reaches the caller: when
\* standard output raises IOError under _printiso, the call ends in that
\* IOError.
C11_PrintErrorReachesCaller ==
    (ppc = "done" /\ baker_cli /\ OutputFails)
        => (pret.kind = "raise" /\ pret.exc = "IOError")

\* C19: printiso either prints the whole table and returns nothing, or
\* returns the table and prints nothing; it prints exactly when a frame of
\* the dispatcher is on the call stack.
C19_PrintsOrReturns ==
    ppc = "done" =>
        IF DispatcherOnStack
            THEN pret.kind = "nothing" /\ stdout = PrintisoText(pyver, ptsd)
            ELSE pret = Returned(ptsd) /\ stdout = <<>>

----------------------------------------------------------------------------
(* Arithmetic of floats: the finite values, the infinities and NaN *)

Sign(v) == IF v.n > 0 THEN 1 ELSE IF v.n < 0 THEN -1 ELSE 0

\* a * b
FMul(a, b) ==
    IF a.k = "nan" \/ b.k = "nan" THEN NaN
    ELSE IF a.k = "num" /\ b.k = "num" THEN Mul(a, b)
    ELSE IF Sign(a) * Sign(b) = 0 THEN NaN
    ELSE IF Sign(a) * Sign(b) > 0 THEN PosInf ELSE NegInf

\* a sum that is its left term
FAdd_Left(a, b) == a

\* a + b
FAdd(a, b) ==
    IF a.k = "nan" \/ b.k = "nan" THEN NaN
    ELSE IF a.k = "num" /\ b.k = "num" THEN Add(a, b)
    ELSE IF a.k = "inf" /\ b.k = "inf" THEN (IF a = b THEN a ELSE NaN)
    ELSE IF a.k = "inf" THEN a ELSE b

----------------------------------------------------------------------------
(* tstoolbox.functions.convert and tsutils.print_input *)

\* output.rename(columns=lambda xloc: xloc + suffix)
Rename(t, suffix) ==
    Table(t.index,
          [c \in 1..Len(t.columns) |-> t.columns[c] \o <<Tok(suffix, 0, 1)>>],
          t.values)

\* print_input: the table it hands to printiso. The two tables have the
\* same increasing index, so input.join(output, how='outer') keeps it.
PrintInput(iftrue, input, output, suffix) ==
    LET out == IF suffix # "" THEN Rename(output, suffix) ELSE output
    IN  IF iftrue THEN Join(input, out) ELSE out

\* tsd * factor + offset
Scale(t, f, o) ==
    Table(t.index, t.columns,
          [i \in 1..Len(t.index) |->
              [c \in 1..Len(t.columns) |-> FAdd(FMul(t.values[i][c], f), o)]])

\* tmptsd = tsd * factor + offset; return tsutils.print_input(...)
ConvertCompute ==
    /\ cpc = "compute"
    /\ ptsd' = PrintInput(print_input, ctsd, Scale(ctsd, factor, coffset), "_convert")
    /\ ppc' = "scan"
    /\ cpc' = "done"
    /\ UNCHANGED <<xvars, print_input, pstack, baker_cli, stdout, pipe, pret,
                   ctsd, factor, coffset, rvars, fvars, gvars, tvars, wvars>>

NextConvert == ConvertCompute \/ NextPrint

\* the call of printiso at the end of a command: from a library or under
\* the dispatcher, with a standard output that fails at once or never
InitOutput ==
    /\ print_input \in BOOLEAN
    /\ pstack \in {st \o <<TsutilsFile>> : st \in SeqsUpTo(Frames, 1)}
    /\ ptsd = NoTable
    /\ baker_cli = FALSE
    /\ stdout = <<>>
    /\ pipe \in {0, MaxRows + 1}
    /\ ppc = "wait"
    /\ pret = NoOutcome

\* The calls of convert: a table of 1 to MaxRows rows and 1 to MaxCols
\* columns with missing, finite and infinite cells, a factor of 1 (the
\* default), 0 or -2 and an offset of 0 (the default) or 5/2.
InitConvert ==
    /\ ctsd \in PrintTables
    /\ factor \in {Num(1, 1), Num(0, 1), Num(-2, 1)}
    /\ coffset \in {Num(0, 1), Num(5, 2)}
    /\ cpc = "compute"
    /\ InitOutput
    /\ ReadIdle /\ FillIdle /\ GofIdle /\ TrendIdle /\ RollIdle
    /\ OthersIdle

SpecConvert == InitConvert /\ [][NextConvert]_vars

----------------------------------------------------------------------------
(* Claims about convert, under SpecConvert *)

----------------------------------------------------------------------------
(* tstoolbox.functions.add_trend *)

\* ntsd.ix[:, :] = nan; ntsd.ix[0, :] = s; ntsd.ix[-1, :] = e
TrendEndsTable(t, s, e) ==
    Table(t.index, t.columns,
          [i \in 1..Len(t.index) |->
              [c \in 1..Len(t.columns) |->
                  IF i = Len(t.index) THEN e ELSE IF i = 1 THEN s ELSE NaN]])

\* ntsd + tsd, two tables of the same index and columns
TableAdd(a, b) ==
    Table(a.index, a.columns,
          [i \in 1..Len(a.index) |->
              [c \in 1..Len(a.columns) |-> FAdd(a.values[i][c], b.values[i][c])]])

\* float(start_offset), float(end_offset) and the three assignments
TrendEnds ==
    /\ tpc = "ends"
    /\ ParseFloat(start_offset).ok
    /\ ParseFloat(end_offset).ok
    /\ tntsd' = TrendEndsTable(ttsd, ParseFloat(start_offset).v,
                               ParseFloat(end_offset).v)
    /\ tpc' = "interpolate"
    /\ UNCHANGED <<xvars, ttsd, start_offset, end_offset, tout,
                   rvars, fvars, gvars, pvars, cvars, wvars>>

\* float() of an offset that is no number raises ValueError
TrendEndsFail ==
    /\ tpc = "ends"
    /\ ~ParseFloat(start_offset).ok \/ ~ParseFloat(end_offset).ok
    /\ tout' = Raised("ValueError", "float", 0)
    /\ tpc' = "done"
    /\ UNCHANGED <<xvars, ttsd, start_offset, end_offset, tntsd,
                   rvars, fvars, gvars, pvars, cvars, wvars>>

\* ntsd = ntsd.interpolate(method='values')
TrendInterpolate ==
    /\ tpc = "interpolate"
    /\ tntsd' = ApplyMethod(tntsd, "linear")
    /\ tpc' = "add"
    /\ UNCHANGED <<xvars, ttsd, start_offset, end_offset, tout,
                   rvars, fvars, gvars, pvars, cvars, wvars>>

\* ntsd = ntsd + tsd; return tsutils.print_input(...)
TrendAdd ==
    /\ tpc = "add"
    /\ tntsd' = TableAdd(tntsd, ttsd)
    /\ ptsd' = PrintInput(print_input, ttsd, tntsd', "_trend")
    /\ ppc' = "scan"
    /\ tpc' = "done"
    /\ UNCHANGED <<xvars, print_input, pstack, baker_cli, stdout, pipe, pret,
                   ttsd, start_offset, end_offset, tout,
                   rvars, fvars, gvars, cvars, wvars>>

NextTrend == TrendEnds \/ TrendEndsFail \/ TrendInterpolate \/ TrendAdd
             \/ NextPrint

\* The calls of add_trend: a table of 1 to MaxTrendRows rows at regular or
\* irregular times, the first column holding the row number with at most
\* one entry missing, a second column, when there is one, holding 4; a
\* start_offset of '1', '-2' or junk and an end_offset of '4' or '1'.
TrendTables ==
    UNION {{Table(FillIndex(n, g), [c \in 1..w |-> ColName(c)],
                  [i \in 1..n |->
                      [c \in 1..w |-> IF c = 2 THEN Num(4, 1)
                                      ELSE IF i = m THEN NaN ELSE Num(i, 1)]]) :
                g \in Intervals, w \in 1..2, m \in 0..n} :
           n \in 1..MaxTrendRows}

InitTrend ==
    /\ ttsd \in TrendTables
    /\ start_offset \in {<<Tok("num", 1, 1)>>, <<Tok("num", -2, 1)>>, <<Junk>>}
    /\ end_offset \in {<<Tok("num", 4, 1)>>, <<Tok("num", 1, 1)>>}
    /\ tntsd = NoTable
    /\ tpc = "ends"
    /\ tout = NoOutcome
    /\ InitOutput
    /\ ReadIdle /\ FillIdle /\ GofIdle /\ ConvertIdle /\ RollIdle
    /\ OthersIdle

SpecTrend == InitTrend /\ [][NextTrend]_vars

----------------------------------------------------------------------------
(* Claims about add_trend, under SpecTrend *)

\* the cell of input row i and column c in the table add_trend hands to
\* printiso, where the input's columns come first when print_input is set
TrendOutput(i, c) ==
    ptsd.values[i][(IF print_input THEN Len(ttsd.columns) ELSE 0) + c]

\* v + x, missing when v is
PlusOffset(v, x) == IF IsNull(v) THEN NaN ELSE Add(v, x)

\* C18 as stated: for every table of one row or more, the first output
\* value of each column is input + start_offset and the last is
\* input + end_offset.
C18_TrendAtBothEnds ==
    (tpc = "done" /\ tout.kind # "raise") =>
        \A c \in 1..Len(ttsd.columns) :
            LET n == Len(ttsd.index) IN
            /\ TrendOutput(1, c)
                 = PlusOffset(ttsd.values[1][c], ParseFloat(start_offset).v)
            /\ TrendOutput(n, c)
                 = PlusOffset(ttsd.values[n][c], ParseFloat(end_offset).v)

\* C18, amended: for a table of two rows or more, every output value is the
\* input plus a trend linear in time from start_offset at the first row to
\* end_offset at the last; for a table of one row the output value is
\* input + end_offset.
C18_TrendLinear ==
    (tpc = "done" /\ tout.kind # "raise") =>
        LET n == Len(ttsd.index)
            s == ParseFloat(start_offset).v
            e == ParseFloat(end_offset).v
            t == ttsd.index
        IN  /\ ptsd.index = t
            /\ \A c \in 1..Len(ttsd.columns) : \A i \in 1..n :
                  TrendOutput(i, c) =
                      PlusOffset(ttsd.values[i][c],
                          IF n = 1 THEN e
                          ELSE Add(s, DivInt(Mul(Sub(e, s), Num(t[i] - t[1], 1)),
                                             t[n] - t[1])))

\* a table of one row with start_offset -2 and end_offset 4: the output is
\* the input plus 4
C18_Witness ==
    /\ tpc = "done"
    /\ tout.kind # "raise"
    /\ Len(ttsd.index) = 1
    /\ ttsd.values[1][1] = Num(1, 1)
    /\ ParseFloat(start_offset).v = Num(-2, 1)
    /\ ParseFloat(end_offset).v = Num(4, 1)
    /\ TrendOutput(1, 1) = Num(5, 1)

----------------------------------------------------------------------------
(* rolling_window with statistic sum: a sliding-window sum per column, the  *)
(* first window - 1 rows missing; the test's table has the column          *)
(* Value::rolling.2.sum.                                                   *)

\* the sum of the rows up to row i, whatever the window
WindowSum_Expanding(col, i, w) ==
    IF \E j \in 1..i : IsNull(col[j]) THEN NaN ELSE SumSeq(SubSeq(col, 1, i))

\* the sum of rows i - w + 1 to i, missing when there are fewer than w rows
\* up to row i or one of them is missing
WindowSum(col, i, w) ==
    IF i < w \/ \E j \in (i - w + 1)..i : IsNull(col[j]) THEN NaN
    ELSE SumSeq(SubSeq(col, i - w + 1, i))

\* one output column per input column, named name::rolling.w.sum
Rolling(t, w) ==
    Table(t.index,
          [c \in 1..Len(t.columns) |-> t.columns[c] \o <<Tok("::rolling.sum", w, 1)>>],
          [i \in 1..Len(t.index) |->
              [c \in 1..Len(t.columns) |-> WindowSum(Column(t, c), i, w)]])

RollingWindow ==
    /\ wpc = "roll"
    /\ wout' = Returned(Rolling(wtsd, window))
    /\ wpc' = "done"
    /\ UNCHANGED <<xvars, wtsd, window, rvars, fvars, gvars, pvars, cvars, tvars>>

NextRoll == RollingWindow

\* The calls of rolling_window: the tables of add_trend and a window of 1
\* to MaxWindow rows.
InitRoll ==
    /\ wtsd \in TrendTables
    /\ window \in 1..MaxWindow
    /\ wpc = "roll"
    /\ wout = NoOutcome
    /\ ReadIdle /\ FillIdle /\ GofIdle /\ PrintIdle /\ ConvertIdle /\ TrendIdle
    /\ OthersIdle

SpecRoll == InitRoll /\ [][NextRoll]_vars

----------------------------------------------------------------------------
(* Claims about rolling_window, under SpecRoll *)

\* C20: for every window w >= 1 and each input column, the output holds a
\* missing value in each of the first w - 1 rows and, in the w-th row, the
\* sum of the first w input values (missing when one of them is).
C20_RollingSum ==
    wpc = "done" =>
        /\ wout.kind = "table"
        /\ wout.tbl.index = wtsd.index
        /\ \A c \in 1..Len(wtsd.columns) :
              /\ \A i \in 1..Len(wtsd.index) :
                    i < window => IsNull(wout.tbl.values[i][c])
              /\ window <= Len(wtsd.index) =>
                    LET col == Column(wtsd, c) IN
                    IF \A j \in 1..window : NotNull(col[j])
                        THEN LET x == wout.tbl.values[window][c] IN
                             /\ x.k = "num"
                             /\ x = SumSeq(SubSeq(col, 1, window))
                        ELSE IsNull(wout.tbl.values[window][c])

\* window 2 on the column 1, 2, 3: missing, then 3, the sum of 1 and 2
C20_Witness ==
    /\ wpc = "done"
    /\ window = 2
    /\ Len(wtsd.index) = 3
    /\ Column(wtsd, 1) = <<Num(1, 1), Num(2, 1), Num(3, 1)>>
    /\ IsNull(wout.tbl.values[1][1])
    /\ wout.tbl.values[2][1] = Num(3, 1)

----------------------------------------------------------------------------
(* plot (src/tstoolbox/functions/plot.py) *)

\* The table is its number of data columns, tsd.shape[1]; column 0 is the
\* index.  A line of the figure is the column drawn along x and the column
\* drawn along y.  A limit is None, or a list of two items, each None or a
\* number; the list None is the empty sequence.
MaxPlotCols == 4

None == [k |-> "none", n |-> 0, d |-> 1]
NoLimits == <<>>

\* the x of a probability plot: the plotting positions
Ppf == -1

\* the Python values of the legend argument: None, the strings '' and
\* 'True', the booleans True and False
LegendArgs == {"None", "''", "'True'", "True", "False"}

\* line 946: bool(legend == "" or legend == "True" or legend is None)
LegendFlag(l) == l = "''" \/ l = "'True'" \/ l = "None"

NormX == {"norm_xaxis"}
NormY == {"norm_yaxis"}

\* lines 1140-1173: the axis kind handed to _know_your_limits
AxisX(ty, axis) == IF ty \in NormX THEN "normal" ELSE axis
AxisY(ty, axis) == IF ty \in NormY THEN "normal" ELSE axis

\* lines 1140-1173: the scale of the axis drawn, the argument logx or logy
\* set by a log axis and cleared by a probability axis
LogScale(isnorm, axis, log) == ~isnorm /\ (axis = "log" \/ log)

\* lines 77-83: the defaults of a probability axis
NormalLimits(nlim) ==
    LET l == IF nlim = NoLimits THEN <<None, None>> ELSE nlim IN
    <<IF l[1] = None THEN Num(1, 100) ELSE l[1],
      IF l[2] = None THEN Num(99, 100) ELSE l[2]>>

Leq(a, b) == ~Less(b, a)

\* lines 76-112 of _know_your_limits: the error of the probability axis
\* and the error of limits in the wrong order
LimitsOutOfOrder(nlim, axis) ==
    LET l == IF axis = "normal" THEN NormalLimits(nlim) ELSE nlim IN
    \/ /\ axis = "normal"
       /\ \E i \in 1..2 : Less(l[i], Num(0, 1)) \/ Less(Num(1, 1), l[i])
    \/ /\ l # NoLimits
       /\ l[1] # None /\ l[2] # None
       /\ Leq(l[2], l[1])

\* lines 114-129 of _know_your_limits: a limit of a log axis that is not
\* positive
NonPositive(nlim, axis) ==
    /\ axis = "log"
    /\ nlim # NoLimits
    /\ \E i \in 1..2 : nlim[i] # None /\ Leq(nlim[i], Num(0, 1))

\* _know_your_limits raises ValueError
LimitsRaise(nlim, axis) == LimitsOutOfOrder(nlim, axis) \/ NonPositive(nlim, axis)

\* what _know_your_limits returns when it does not raise
KnowYourLimits(nlim, axis) ==
    IF axis = "normal" THEN NormalLimits(nlim) ELSE nlim

\* lines 1205-1218: more than one column and an odd number of them
OddColumns_One(n) == n % 2 # 0

OddColumns(n) == n > 1 /\ n % 2 # 0

\* lines 1219-1229: the number of lines to draw
Colcnt(ty, n) == IF ty \in {"xy", "double_mass"} THEN n \div 2 ELSE n

\* lines 1247-1459: the lines drawn, in order.  type time draws every
\* column against the index; xy and double_mass draw the columns in pairs;
\* a probability plot draws every column against its plotting positions.
Lines(ty, n) ==
    IF ty = "time" THEN [c \in 1..n |-> [x |-> 0, y |-> c]]
    ELSE IF ty \in {"xy", "double_mass"}
        THEN [c \in 1..Colcnt(ty, n) |-> [x |-> 2 * c - 1, y |-> 2 * c]]
    ELSE IF ty \in NormX THEN [c \in 1..Colcnt(ty, n) |-> [x |-> Ppf, y |-> c]]
    ELSE [c \in 1..Colcnt(ty, n) |-> [x |-> c, y |-> Ppf]]

PlotValueError == Raised("ValueError", "_know_your_limits", 0)
PlotColumnsError == Raised("AttributeError", "plot", 0)

\* lines 1175-1176: one of the two calls of _know_your_limits raises
PlotLimitsFail ==
    /\ lpc = "plot"
    /\ \/ LimitsRaise(xlim, AxisX(type, xaxis))
       \/ LimitsRaise(ylim, AxisY(type, yaxis))
    /\ lout' = PlotValueError
    /\ lpc' = "done"
    /\ UNCHANGED <<type, legend, logx, logy, xaxis, yaxis, xlim, ylim, shape, ax,
                   ovars, mvars, kvars>>

\* lines 1205-1218: xy and double_mass with an odd number of columns
PlotColumnsFail ==
    /\ lpc = "plot"
    /\ ~LimitsRaise(xlim, AxisX(type, xaxis))
    /\ ~LimitsRaise(ylim, AxisY(type, yaxis))
    /\ type \in {"xy", "double_mass"}
    /\ OddColumns(shape)
    /\ lout' = PlotColumnsError
    /\ lpc' = "done"
    /\ UNCHANGED <<type, legend, logx, logy, xaxis, yaxis, xlim, ylim, shape, ax,
                   ovars, mvars, kvars>>

\* the call that draws the figure
Plot ==
    /\ lpc = "plot"
    /\ ~LimitsRaise(xlim, AxisX(type, xaxis))
    /\ ~LimitsRaise(ylim, AxisY(type, yaxis))
    /\ type \in {"xy", "double_mass"} => ~OddColumns(shape)
    /\ ax' = [lines |-> Lines(type, shape),
              legend |-> LegendFlag(legend),
              logx |-> LogScale(type \in NormX, xaxis, logx),
              logy |-> LogScale(type \in NormY, yaxis, logy),
              xlim |-> KnowYourLimits(xlim, AxisX(type, xaxis)),
              ylim |-> KnowYourLimits(ylim, AxisY(type, yaxis))]
    /\ lpc' = "done"
    /\ UNCHANGED <<type, legend, logx, logy, xaxis, yaxis, xlim, ylim, shape, lout,
                   ovars, mvars, kvars>>

NextPlot == PlotLimitsFail \/ PlotColumnsFail \/ Plot

PlotTypes == {"time", "xy", "double_mass", "norm_xaxis", "norm_yaxis"}

\* limits: none, inside (0, 1), starting at 0, open below, in the wrong
\* order, negative
XLimits ==
    {NoLimits, <<Num(1, 4), Num(3, 4)>>, <<Num(0, 1), Num(1, 1)>>,
     <<None, Num(2, 1)>>, <<Num(2, 1), Num(1, 1)>>, <<Num(-1, 1), None>>}

YLimits == {NoLimits, <<Num(1, 4), Num(3, 4)>>, <<Num(0, 1), Num(1, 1)>>}

AllIdle ==
    /\ ReadIdle /\ FillIdle /\ GofIdle /\ PrintIdle /\ ConvertIdle /\ TrendIdle
    /\ RollIdle

\* The calls of plot: a table with a datetime index and 0 to MaxPlotCols
\* data columns.
InitPlot ==
    /\ type \in PlotTypes
    /\ legend \in LegendArgs
    /\ logx \in BOOLEAN
    /\ logy \in BOOLEAN
    /\ xaxis \in {"arithmetic", "log"}
    /\ yaxis \in {"arithmetic", "log"}
    /\ xlim \in XLimits
    /\ ylim \in YLimits
    /\ shape \in 0..MaxPlotCols
    /\ ax = NoAxes
    /\ lpc = "plot"
    /\ lout = NoOutcome
    /\ AllIdle /\ MakeListIdle /\ PeakIdle

SpecPlot == InitPlot /\ [][NextPlot]_vars

----------------------------------------------------------------------------
(* Claims about plot, under SpecPlot *)

XYTypes == {"xy", "double_mass"}

\* C23: plot with type xy or double_mass and a table of exactly one data
\* column draws exactly one series, the index along x and the column along y.
C23_OneColumnOneSeries ==
    (lpc = "done" /\ lout = NoOutcome /\ type \in XYTypes /\ shape = 1)
        => ax.lines = <<[x |-> 0, y |-> 1]>>

\* C24: plot shows the legend when legend is the boolean True, hides it when
\* legend is the boolean False, and shows it when legend is not given.
C24_LegendShown ==
    (lpc = "done" /\ lout = NoOutcome) =>
        /\ legend = "True" => ax.legend
        /\ legend = "False" => ~ax.legend
        /\ legend = "None" => ax.legend

HasNonPositive(lim) ==
    lim # NoLimits /\ \E i \in 1..2 : lim[i] # None /\ ~Less(Num(0, 1), lim[i])

\* C26: whenever an axis is drawn on a log scale, by xaxis or yaxis = 'log' or
\* by logx or logy = True, plot raises ValueError if a limit given for that
\* axis is less than or equal to 0.
C26_LogLimitsPositive ==
    lpc = "done" =>
        /\ (type \notin NormX /\ (xaxis = "log" \/ logx) /\ HasNonPositive(xlim))
              => lout = PlotValueError
        /\ (type \notin NormY /\ (yaxis = "log" \/ logy) /\ HasNonPositive(ylim))
              => lout = PlotValueError

----------------------------------------------------------------------------
(* make_list (tstoolbox.tsutils, as src/tests/test_make_list.py and its
   callers in plot.py use it) *)

\* A Python value: None, an int, a float, a string (its tokens) or a list of
\* such values.
MaxItems == 3

PyNone == [py |-> "NoneType", n |-> 0, d |-> 1, s |-> <<>>, items |-> <<>>]
PyInt(n) == [py |-> "int", n |-> n, d |-> 1, s |-> <<>>, items |-> <<>>]
PyFloat(n, d) ==
    [py |-> "float", n |-> Num(n, d).n, d |-> Num(n, d).d, s |-> <<>>, items |-> <<>>]
PyStr(s) == [py |-> "str", n |-> 0, d |-> 1, s |-> s, items |-> <<>>]
PyList(items) == [py |-> "list", n |-> 0, d |-> 1, s |-> <<>>, items |-> items]

\* the digits of an integer, and the word None; Tok("num", n, d) is a
\* literal with a decimal point
IntTok(n) == Tok("int", n, 1)
NoneTok == Tok("None", 0, 1)

\* one item: None when it is empty or 'None', an int when int() reads it, else
\* a float when float() reads it, else the string; a value that is not a
\* string is kept
ItemValue_Keep(e) == e

ItemValue(e) ==
    IF e.py # "str" THEN e
    ELSE IF e.s = <<>> \/ e.s = <<NoneTok>> THEN PyNone
    ELSE IF Len(e.s) = 1 /\ e.s[1].c = "int" THEN PyInt(e.s[1].n)
    ELSE IF Len(e.s) = 1 /\ e.s[1].c = "num" THEN PyFloat(e.s[1].n, e.s[1].d)
    ELSE e

\* make_list(arg) with n left at its default
MakeListOf(arg) ==
    IF arg = PyNone \/ arg = PyStr(<<>>) \/ arg = PyStr(<<NoneTok>>) THEN PyNone
    ELSE IF arg.py = "str"
        THEN LET parts == Split(arg.s) IN
             PyList([i \in 1..Len(parts) |-> ItemValue(PyStr(parts[i]))])
    ELSE IF arg.py = "list"
        THEN PyList([i \in 1..Len(arg.items) |-> ItemValue(arg.items[i])])
    ELSE PyList(<<arg>>)

MakeList ==
    /\ mpc = "call"
    /\ mout' = MakeListOf(xylimits)
    /\ mpc' = "done"
    /\ UNCHANGED <<xylimits, ovars, lvars, kvars>>

NextMakeList == MakeList

\* the items of a string: empty, 1, 1.1, a word, None
ItemTexts == {<<>>, <<IntTok(1)>>, <<Tok("num", 11, 10)>>, <<Word(1)>>, <<NoneTok>>}

\* the elements of a list: 1, 3.3 and the items above as strings
ListItems == {PyInt(1), PyFloat(33, 10)} \cup {PyStr(s) : s \in ItemTexts}

\* The calls of make_list: None, a number, a string of up to MaxItems items
\* between commas, a list of 1 to MaxItems elements.
MakeListArgs ==
    {PyNone, PyInt(1), PyFloat(6, 5)}
    \cup {PyStr(JoinComma(p)) : p \in SeqsUpTo(ItemTexts, MaxItems)}
    \cup {PyList(l) : l \in SeqsUpTo(ListItems, MaxItems) \ {<<>>}}

InitMakeList ==
    /\ xylimits \in MakeListArgs
    /\ mpc = "call"
    /\ mout = NoOutcome
    /\ AllIdle /\ PlotIdle /\ PeakIdle

SpecMakeList == InitMakeList /\ [][NextMakeList]_vars

----------------------------------------------------------------------------
(* Claims about make_list, under SpecMakeList *)

\* what the claim says one item gives: None for an empty or 'None' string, the
\* int or else the float a string reads as, else the item itself
Converted(e, out) ==
    IF e.py # "str" THEN out = e
    ELSE IF e.s = <<>> \/ e.s = <<NoneTok>> THEN out = PyNone
    ELSE IF e.s = <<IntTok(e.s[1].n)>> THEN out = PyInt(e.s[1].n)
    ELSE IF e.s = <<Tok("num", e.s[1].n, e.s[1].d)>>
        THEN out.py = "float" /\ out.n * e.s[1].d = e.s[1].n * out.d
    ELSE out = e

\* C22: make_list returns None for None, '' and 'None'; wraps a scalar in a
\* one-element list; and otherwise returns one element per comma-separated
\* item or list element, each an int if it reads as one, else a float, else
\* the string, with an empty or 'None' item turned into None.
C22_MakeList ==
    mpc = "done" =>
        IF xylimits \in {PyNone, PyStr(<<>>), PyStr(<<NoneTok>>)} THEN mout = PyNone
        ELSE IF xylimits.py \in {"int", "float"} THEN mout = PyList(<<xylimits>>)
        ELSE LET elems == IF xylimits.py = "str"
                              THEN [i \in 1..Len(Split(xylimits.s)) |->
                                       PyStr(Split(xylimits.s)[i])]
                              ELSE xylimits.items
             IN  /\ mout.py = "list"
                 /\ Len(mout.items) = Len(elems)
                 /\ \A i \in 1..Len(elems) : Converted(elems[i], mout.items[i])

\* make_list('1.1,1,') gives [1.1, 1, None]
C22_Witness ==
    /\ mpc = "done"
    /\ xylimits = PyStr(<<Tok("num", 11, 10), Comma, IntTok(1), Comma>>)
    /\ mout = PyList(<<PyFloat(11, 10), PyInt(1), PyNone>>)

----------------------------------------------------------------------------
(* peak_detection (section 4.3 of the specification and
   src/tests/test_peak_detect.py) *)

MaxPeakRows == 4
MaxPeakWindow == 2

PeakMethods == {"rel", "minmax", "zero_crossing", "sine"}

\* the rows within w rows of row i, row i left out
Neighbours(col, i, w) == {j \in 1..Len(col) : j # i /\ j >= i - w /\ j <= i + w}

\* the edge policy: the first and the last row are never extrema
Interior_All(col, i) == TRUE

Interior(col, i) == 1 < i /\ i < Len(col)

\* a local maximum (sign 1) or minimum (sign -1) at row i.  rel compares the
\* row with every neighbour, and so does sine on the samples; minmax takes
\* the extreme of the envelope of the window; zero_crossing takes the rows
\* where the first difference changes sign.
Above(a, b, sign) == IF sign = 1 THEN Less(b, a) ELSE Less(a, b)

IsExtremum(col, i, w, m, sign) ==
    /\ Interior(col, i)
    /\ IF m = "minmax"
           THEN /\ \A j \in Neighbours(col, i, w) : ~Above(col[j], col[i], sign)
                /\ \E j \in Neighbours(col, i, w) : Above(col[i], col[j], sign)
       ELSE IF m = "zero_crossing"
           THEN \A j \in Neighbours(col, i, 1) : Above(col[i], col[j], sign)
       ELSE \A j \in Neighbours(col, i, w) : Above(col[i], col[j], sign)

\* the column of peaks or of valleys: the value at an extremum, missing
\* elsewhere
Marked(col, w, m, sign) ==
    [i \in 1..Len(col) |-> IF IsExtremum(col, i, w, m, sign) THEN col[i] ELSE NaN]

\* the input columns, then name_peak and name_valley for each of them
PeakTable(t, w, m) ==
    LET nc == Len(t.columns) IN
    Table(t.index,
          [c \in 1..(3 * nc) |->
              IF c <= nc THEN t.columns[c]
              ELSE IF c % 2 = (nc + 1) % 2
                  THEN t.columns[((c - nc - 1) \div 2) + 1] \o <<Tok("_peak", 0, 1)>>
              ELSE t.columns[((c - nc - 1) \div 2) + 1] \o <<Tok("_valley", 0, 1)>>],
          [i \in 1..Len(t.index) |->
              [c \in 1..(3 * nc) |->
                  IF c <= nc THEN t.values[i][c]
                  ELSE Marked(Column(t, ((c - nc - 1) \div 2) + 1), w, m,
                              IF c % 2 = (nc + 1) % 2 THEN 1 ELSE -1)[i]]])

PeakDetection ==
    /\ kpc = "detect"
    /\ kout' = Returned(PeakTable(ktsd, kwindow, kmethod))
    /\ kpc' = "done"
    /\ UNCHANGED <<ktsd, kmethod, kwindow, ovars, lvars, mvars>>

NextPeak == PeakDetection

PeakValues == <<Num(-1, 1), Num(0, 1), Num(1, 1)>>

\* one-column tables of 1 to MaxPeakRows rows without missing values
PeakTables ==
    UNION {{Table([i \in 1..n |-> i], <<ColName(1)>>,
                  [i \in 1..n |-> <<PeakValues[k[i]]>>]) :
                k \in [1..n -> 1..3]} : n \in 1..MaxPeakRows}

InitPeak ==
    /\ ktsd \in PeakTables
    /\ kmethod \in PeakMethods
    /\ kwindow \in 1..MaxPeakWindow
    /\ kpc = "detect"
    /\ kout = NoOutcome
    /\ AllIdle /\ PlotIdle /\ MakeListIdle

SpecPeak == InitPeak /\ [][NextPeak]_vars

----------------------------------------------------------------------------
(* Claims about peak_detection, under SpecPeak *)

\* C21: peak_detection never flags the first or the last row of a series as
\* a peak or as a valley, whatever the method and the window.
C21_BoundaryNeverFlagged ==
    kpc = "done" =>
        /\ kout.kind = "table"
        /\ Len(kout.tbl.columns) = 3 * Len(ktsd.columns)
        /\ \A c \in (Len(ktsd.columns) + 1)..Len(kout.tbl.columns) :
              /\ IsNull(kout.tbl.values[1][c])
              /\ IsNull(kout.tbl.values[Len(ktsd.index)][c])

\* the series 0, 1, 0, 1: the second row is a peak, the last row, as high,
\* is not flagged
C21_Witness ==
    /\ kpc = "done"
    /\ Column(ktsd, 1) = <<Num(0, 1), Num(1, 1), Num(0, 1), Num(1, 1)>>
    /\ kwindow = 1
    /\ kout.tbl.values[2][2] = Num(1, 1)
    /\ IsNull(kout.tbl.values[4][2])
    /\ kout.tbl.values[3][3] = Num(0, 1)

=============================================================================
